---- MODULE Spec2Model ----
(***************************************************************************)
(* A model of contracts/BallotGuard.sol: the poll table, the vote-record   *)
(* index, and the four state-changing entry points createPoll, submitVote, *)
(* finalizePoll and submitDecryptedResults, each taken as one atomic       *)
(* transaction of the ledger (a revert discards every write of the call).  *)
(*                                                                         *)
(* The FHE library is outside the repository.  A ciphertext handle is      *)
(* modelled as a record [h |-> identity, v |-> plaintext]; the plaintext   *)
(* is bookkeeping of the model only, no handler reads it in the clear.     *)
(*                                                                         *)
(* The CreatePollForm component of the front end is modelled in front of   *)
(* the contract: its React state, the render the user acts on, and the     *)
(* invocations of its asynchronous handleSubmit, one step per await.       *)
(***************************************************************************)
EXTENDS Integers, Sequences, FiniteSets, TLC

\* ---------------------------------------------------------------- bounds
\* block.timestamp ranges over 0..MaxTime.
MaxTime == 3
\* A voter may encrypt any value of 0..MaxChoice as the choice.
MaxChoice == 2

\* ------------------------------------------------------ program constants
MIN_OPTIONS == 2
MAX_OPTIONS == 4

\* ------------------------------------------------------------- input sets
Users == {"alice", "bob"}
\* The poll ids the model tracks: the first poll, and one id that is never
\* allocated.  createPoll is enabled while the next id is tracked as well.
PollIds == {0, 1}
\* The keys of the storage mappings the model tracks: the ledger of several
\* polls allocates ids 0 and 1, and id 2 is never allocated.
LedgerIds == {0, 1, 2}
Times == 0 .. MaxTime
Choices == 0 .. MaxChoice
Titles == {"", "Election"}
Descriptions == {"Choose wisely"}
OptionInputs ==
    { <<"Alpha">>,
      <<"Alpha", "Beta">>,
      <<"Alpha", "">>,
      <<"Alpha", "Beta", "Gamma">>,
      <<"Alpha", "Beta", "Gamma", "Delta">>,
      <<"Alpha", "Beta", "Gamma", "Delta", "Eps">> }

\* ------------------------------------------------------------------ state
VARIABLES
    now,          \* block.timestamp of the ledger
    pollCount,    \* uint256 public pollCount
    polls,        \* mapping(uint256 => Poll) polls
    pollVotes,    \* mapping(uint256 => mapping(address => bool)) pollVotes
    allowed,      \* ACL of the encryption subsystem: handles the contract may use
    public,       \* ACL of the encryption subsystem: publicly decryptable handles
    ballots,      \* history: the plaintexts of each voter's accepted votes, in order
    creations,    \* history: the successful createPoll calls, in order
    last,         \* outcome of the most recent transaction
    form,         \* CreatePollForm: the component's React state
    view,         \* CreatePollForm: the state of the latest render
    calls,        \* CreatePollForm: the handleSubmit invocations in progress
    sent          \* history: the arguments of the form's latest createPoll call

formVars == <<form, view, calls, sent>>

vars == <<now, pollCount, polls, pollVotes, allowed, public, ballots, creations, last,
          form, view, calls, sent>>

\* The zero value of a storage slot.
NoAddress == "0x0"
NoBytes == <<>>
\* euint32.wrap(0): the handle no FHE operation has produced yet.
NoHandle == [h |-> <<>>, v |-> 0]

EmptyPoll ==
    [ title |-> "", description |-> "", options |-> <<>>,
      startTime |-> 0, endTime |-> 0,
      finalized |-> FALSE, resultsSubmitted |-> FALSE,
      creator |-> NoAddress,
      encryptedCounts |-> <<>>, decryptedCounts |-> <<>>,
      encodedClearResults |-> NoBytes, decryptionProof |-> NoBytes ]

\* The storage a transaction reads and writes, as one value.
Storage ==
    [ pollCount |-> pollCount, polls |-> polls, pollVotes |-> pollVotes,
      allowed |-> allowed, public |-> public ]

\* ------------------------------------------------- transaction outcomes
\* A call that returns normally keeps its writes.
Ok(cur, ret) == [st |-> cur, err |-> "ok", ret |-> ret, undone |-> FALSE]

\* A revert discards every write the call has made so far: the storage is
\* the one the call started from.
\* `undone` tells whether the call had changed the storage by the time it
\* reverted.
Revert(pre, cur, err) ==
    [st |-> pre, err |-> err, ret |-> <<>>, undone |-> cur # pre]

\* _ensurePollExists: a poll exists iff its options list is non-empty.
PollExists(poll) == Len(poll.options) # 0

\* ------------------------------------------------ encryption subsystem
\* FHE.isInitialized: a handle is initialized iff it is not the zero handle.
IsInitialized(a) == a.h # <<>>

\* FHE.asEuint32(n): a trivial encryption of the cleartext n.
FheAsEuint32(n) == [h |-> <<-1, n>>, v |-> n]

\* An external input: the ciphertext of a choice together with the proof that
\* `owner` encrypted it for this contract.
ExternalInputs == [owner : Users, val : Choices]

\* What a voter may submit: any choice encrypted by the voter, or a
\* ciphertext that somebody else encrypted.
VoteInputs(u) ==
    { ct \in ExternalInputs : ct.owner = u \/ ct.val = 0 }

\* FHE.fromExternal accepts the pair iff the proof binds it to msg.sender.
InputProofVerifies(ct, sender) == ct.owner = sender
FheFromExternal(ct) == [h |-> <<-2>>, v |-> ct.val]

\* FHE.select always yielding its first branch.
FheSelectFirst(c, a, b) == a

\* FHE.select with its two branches swapped.
FheSelectSwapped(c, a, b) == IF c.v THEN b ELSE a

\* FHE.eq, FHE.select: computed under encryption, v is the hidden plaintext.
FheEq(a, b) == [h |-> <<-3>>, v |-> (a.v = b.v)]
FheSelect(c, a, b) == IF c.v THEN a ELSE b

\* FHE.add: an uninitialized operand counts as an encryption of 0.  The
\* result is a new handle; its identity (a hash of the operation and its
\* operands in the library) is abstracted as the storage slot it is written
\* to and the number of additions that produced it.  Counters stay below the
\* number of users, so the 32-bit wrap-around of the sum is never reached.
FheAdd(a, b, slot) ==
    LET a1 == IF IsInitialized(a) THEN a ELSE FheAsEuint32(0)
        b1 == IF IsInitialized(b) THEN b ELSE FheAsEuint32(0)
        ver == IF IsInitialized(a) THEN a.h[3] ELSE 0
    IN  [h |-> <<slot[1], slot[2], ver + 1>>, v |-> a1.v + b1.v]

\* The loop of createPoll failing on an empty option without undoing the
\* writes made before it.
RECURSIVE CreateLoopKeepingWrites(_, _, _, _, _)
CreateLoopKeepingWrites(pre, cur, pollId, options, i) ==
    IF i > Len(options) THEN Ok(cur, pollId)
    ELSE IF options[i] = "" THEN Revert(cur, cur, "EmptyOption")
    ELSE CreateLoopKeepingWrites(pre,
                    [cur EXCEPT !.polls[pollId].options = Append(@, options[i]),
                                !.polls[pollId].encryptedCounts = Append(@, NoHandle)],
                    pollId, options, i + 1)

\* ------------------------------------------------------------- createPoll
\* The loop of createPoll: the per-option check, then the two pushes.
RECURSIVE CreateLoop(_, _, _, _, _)
CreateLoop(pre, cur, pollId, options, i) ==
    IF i > Len(options) THEN Ok(cur, pollId)
    ELSE IF options[i] = "" THEN Revert(pre, cur, "EmptyOption")
    ELSE CreateLoop(pre,
                    [cur EXCEPT !.polls[pollId].options = Append(@, options[i]),
                                !.polls[pollId].encryptedCounts = Append(@, NoHandle)],
                    pollId, options, i + 1)

\* createPoll checking the options before the schedule.
CreatePollTxOptionsFirst(S, sender, title, description, options, startTime, endTime, t) ==
    IF title = "" THEN Revert(S, S, "EmptyTitle")
    ELSE IF Len(options) < MIN_OPTIONS \/ Len(options) > MAX_OPTIONS
         THEN Revert(S, S, "InvalidOptionCount")
    ELSE IF \E i \in 1 .. Len(options) : options[i] = ""
         THEN Revert(S, S, "EmptyOption")
    ELSE IF endTime <= startTime \/ endTime <= t
         THEN Revert(S, S, "InvalidSchedule")
    ELSE LET pollId == S.pollCount
             S1 == [S EXCEPT !.pollCount = @ + 1,
                             !.polls[pollId].title = title,
                             !.polls[pollId].description = description,
                             !.polls[pollId].startTime = startTime,
                             !.polls[pollId].endTime = endTime,
                             !.polls[pollId].creator = sender]
         IN  CreateLoop(S, S1, pollId, options, 1)

\* createPoll accepting an end time that is not in the future.
CreatePollTxNoFutureCheck(S, sender, title, description, options, startTime, endTime, t) ==
    IF title = "" THEN Revert(S, S, "EmptyTitle")
    ELSE IF Len(options) < MIN_OPTIONS \/ Len(options) > MAX_OPTIONS
         THEN Revert(S, S, "InvalidOptionCount")
    ELSE IF endTime <= startTime
         THEN Revert(S, S, "InvalidSchedule")
    ELSE LET pollId == S.pollCount
             S1 == [S EXCEPT !.pollCount = @ + 1,
                             !.polls[pollId].title = title,
                             !.polls[pollId].description = description,
                             !.polls[pollId].startTime = startTime,
                             !.polls[pollId].endTime = endTime,
                             !.polls[pollId].creator = sender]
         IN  CreateLoop(S, S1, pollId, options, 1)

\* createPoll without the check of the number of options.
CreatePollTxAnyCount(S, sender, title, description, options, startTime, endTime, t) ==
    IF title = "" THEN Revert(S, S, "EmptyTitle")
    ELSE IF endTime <= startTime \/ endTime <= t
         THEN Revert(S, S, "InvalidSchedule")
    ELSE LET pollId == S.pollCount
             S1 == [S EXCEPT !.pollCount = @ + 1,
                             !.polls[pollId].title = title,
                             !.polls[pollId].description = description,
                             !.polls[pollId].startTime = startTime,
                             !.polls[pollId].endTime = endTime,
                             !.polls[pollId].creator = sender]
         IN  CreateLoop(S, S1, pollId, options, 1)

\* createPoll taking the current pollCount as id without advancing it.
CreatePollTxNoIncrement(S, sender, title, description, options, startTime, endTime, t) ==
    IF title = "" THEN Revert(S, S, "EmptyTitle")
    ELSE IF Len(options) < MIN_OPTIONS \/ Len(options) > MAX_OPTIONS
         THEN Revert(S, S, "InvalidOptionCount")
    ELSE IF endTime <= startTime \/ endTime <= t
         THEN Revert(S, S, "InvalidSchedule")
    ELSE LET pollId == S.pollCount
             S1 == [S EXCEPT !.polls[pollId].title = title,
                             !.polls[pollId].description = description,
                             !.polls[pollId].startTime = startTime,
                             !.polls[pollId].endTime = endTime,
                             !.polls[pollId].creator = sender]
         IN  CreateLoop(S, S1, pollId, options, 1)

CreatePollTx(S, sender, title, description, options, startTime, endTime, t) ==
    IF title = "" THEN Revert(S, S, "EmptyTitle")
    ELSE IF Len(options) < MIN_OPTIONS \/ Len(options) > MAX_OPTIONS
         THEN Revert(S, S, "InvalidOptionCount")
    ELSE IF endTime <= startTime \/ endTime <= t
         THEN Revert(S, S, "InvalidSchedule")
    ELSE LET pollId == S.pollCount
             S1 == [S EXCEPT !.pollCount = @ + 1,
                             !.polls[pollId].title = title,
                             !.polls[pollId].description = description,
                             !.polls[pollId].startTime = startTime,
                             !.polls[pollId].endTime = endTime,
                             !.polls[pollId].creator = sender]
         IN  CreateLoop(S, S1, pollId, options, 1)

\* The loop of submitVote comparing the choice with one-based option indexes.
RECURSIVE TallyLoopOneBased(_, _, _, _)
TallyLoopOneBased(cur, pollId, choice, i) ==
    IF i >= Len(cur.polls[pollId].options) THEN cur
    ELSE LET isTarget == FheEq(choice, FheAsEuint32(i + 1))
             increment == FheSelect(isTarget, FheAsEuint32(1), FheAsEuint32(0))
             sum == FheAdd(cur.polls[pollId].encryptedCounts[i + 1], increment,
                           <<pollId, i>>)
         IN  TallyLoopOneBased([cur EXCEPT !.polls[pollId].encryptedCounts[i + 1] = sum,
                                           !.allowed = @ \cup {sum.h}],
                               pollId, choice, i + 1)

\* The loop of submitVote branching on the choice: only the chosen counter
\* is replaced.
RECURSIVE TallyLoopBranching(_, _, _, _)
TallyLoopBranching(cur, pollId, choice, i) ==
    IF i >= Len(cur.polls[pollId].options) THEN cur
    ELSE IF choice.v # i THEN TallyLoopBranching(cur, pollId, choice, i + 1)
    ELSE LET sum == FheAdd(cur.polls[pollId].encryptedCounts[i + 1], FheAsEuint32(1),
                           <<pollId, i>>)
         IN  TallyLoopBranching([cur EXCEPT !.polls[pollId].encryptedCounts[i + 1] = sum,
                                            !.allowed = @ \cup {sum.h}],
                                pollId, choice, i + 1)

\* ------------------------------------------------------------- submitVote
\* The loop of submitVote: one eq, one select and one add per option, then
\* FHE.allowThis on the new counter handle.
RECURSIVE TallyLoop(_, _, _, _)
TallyLoop(cur, pollId, choice, i) ==
    IF i >= Len(cur.polls[pollId].options) THEN cur
    ELSE LET isTarget == FheEq(choice, FheAsEuint32(i))
             increment == FheSelect(isTarget, FheAsEuint32(1), FheAsEuint32(0))
             sum == FheAdd(cur.polls[pollId].encryptedCounts[i + 1], increment,
                           <<pollId, i>>)
         IN  TallyLoop([cur EXCEPT !.polls[pollId].encryptedCounts[i + 1] = sum,
                                   !.allowed = @ \cup {sum.h}],
                       pollId, choice, i + 1)

\* submitVote without the AlreadyVoted guard.
SubmitVoteTxNoVoteGuard(S, sender, pollId, ct, t) ==
    LET poll == S.polls[pollId] IN
    IF ~PollExists(poll) THEN Revert(S, S, "PollNotFound")
    ELSE IF t < poll.startTime THEN Revert(S, S, "VotingNotStarted")
    ELSE IF t > poll.endTime THEN Revert(S, S, "VotingFinished")
    ELSE LET S1 == [S EXCEPT !.pollVotes[pollId][sender] = TRUE] IN
         IF ~InputProofVerifies(ct, sender)
         THEN Revert(S, S1, "InvalidInputProof")
         ELSE Ok(TallyLoop(S1, pollId, FheFromExternal(ct), 0), <<>>)

\* submitVote closing the window one tick early (>= for >).
SubmitVoteTxEarlyClose(S, sender, pollId, ct, t) ==
    LET poll == S.polls[pollId] IN
    IF ~PollExists(poll) THEN Revert(S, S, "PollNotFound")
    ELSE IF t < poll.startTime THEN Revert(S, S, "VotingNotStarted")
    ELSE IF t >= poll.endTime THEN Revert(S, S, "VotingFinished")
    ELSE IF S.pollVotes[pollId][sender] THEN Revert(S, S, "AlreadyVoted")
    ELSE LET S1 == [S EXCEPT !.pollVotes[pollId][sender] = TRUE] IN
         IF ~InputProofVerifies(ct, sender)
         THEN Revert(S, S1, "InvalidInputProof")
         ELSE Ok(TallyLoop(S1, pollId, FheFromExternal(ct), 0), <<>>)

\* submitVote consulting the vote record before the end of the window.
SubmitVoteTxVoteGuardFirst(S, sender, pollId, ct, t) ==
    LET poll == S.polls[pollId] IN
    IF ~PollExists(poll) THEN Revert(S, S, "PollNotFound")
    ELSE IF t < poll.startTime THEN Revert(S, S, "VotingNotStarted")
    ELSE IF S.pollVotes[pollId][sender] THEN Revert(S, S, "AlreadyVoted")
    ELSE IF t > poll.endTime THEN Revert(S, S, "VotingFinished")
    ELSE LET S1 == [S EXCEPT !.pollVotes[pollId][sender] = TRUE] IN
         IF ~InputProofVerifies(ct, sender)
         THEN Revert(S, S1, "InvalidInputProof")
         ELSE Ok(TallyLoop(S1, pollId, FheFromExternal(ct), 0), <<>>)

\* submitVote recording the vote without updating the counters.
SubmitVoteTxRecordOnly(S, sender, pollId, ct, t) ==
    LET poll == S.polls[pollId] IN
    IF ~PollExists(poll) THEN Revert(S, S, "PollNotFound")
    ELSE IF t < poll.startTime THEN Revert(S, S, "VotingNotStarted")
    ELSE IF t > poll.endTime THEN Revert(S, S, "VotingFinished")
    ELSE IF S.pollVotes[pollId][sender] THEN Revert(S, S, "AlreadyVoted")
    ELSE LET S1 == [S EXCEPT !.pollVotes[pollId][sender] = TRUE] IN
         IF ~InputProofVerifies(ct, sender)
         THEN Revert(S, S1, "InvalidInputProof")
         ELSE Ok(S1, <<>>)

\* submitVote keeping the vote record of a call whose input proof fails.
SubmitVoteTxRecordsRejected(S, sender, pollId, ct, t) ==
    LET poll == S.polls[pollId] IN
    IF ~PollExists(poll) THEN Revert(S, S, "PollNotFound")
    ELSE IF t < poll.startTime THEN Revert(S, S, "VotingNotStarted")
    ELSE IF t > poll.endTime THEN Revert(S, S, "VotingFinished")
    ELSE IF S.pollVotes[pollId][sender] THEN Revert(S, S, "AlreadyVoted")
    ELSE LET S1 == [S EXCEPT !.pollVotes[pollId][sender] = TRUE] IN
         IF ~InputProofVerifies(ct, sender)
         THEN Revert(S1, S1, "InvalidInputProof")
         ELSE Ok(TallyLoop(S1, pollId, FheFromExternal(ct), 0), <<>>)

SubmitVoteTx(S, sender, pollId, ct, t) ==
    LET poll == S.polls[pollId] IN
    IF ~PollExists(poll) THEN Revert(S, S, "PollNotFound")
    ELSE IF t < poll.startTime THEN Revert(S, S, "VotingNotStarted")
    ELSE IF t > poll.endTime THEN Revert(S, S, "VotingFinished")
    ELSE IF S.pollVotes[pollId][sender] THEN Revert(S, S, "AlreadyVoted")
    ELSE LET S1 == [S EXCEPT !.pollVotes[pollId][sender] = TRUE] IN
         IF ~InputProofVerifies(ct, sender)
         THEN Revert(S, S1, "InvalidInputProof")
         ELSE Ok(TallyLoop(S1, pollId, FheFromExternal(ct), 0), <<>>)

\* The loop of finalizePoll failing on a handle without undoing the writes
\* made before it.
RECURSIVE PublishLoopKeepingWrites(_, _, _, _)
PublishLoopKeepingWrites(pre, cur, pollId, i) ==
    IF i >= Len(cur.polls[pollId].encryptedCounts) THEN Ok(cur, <<>>)
    ELSE LET handle == cur.polls[pollId].encryptedCounts[i + 1].h IN
         IF handle \notin cur.allowed THEN Revert(cur, cur, "SenderNotAllowed")
         ELSE PublishLoopKeepingWrites(pre, [cur EXCEPT !.public = @ \cup {handle}],
                                       pollId, i + 1)

\* ----------------------------------------------------------- finalizePoll
\* FHE.makePubliclyDecryptable: the subsystem's ACL grants public decryption
\* of a handle only to a caller that is allowed on the handle, and rejects
\* the call otherwise.  The contract is allowed on the handles it passed to
\* FHE.allowThis; the zero handle is on no allow list.
RECURSIVE PublishLoop(_, _, _, _)
PublishLoop(pre, cur, pollId, i) ==
    IF i >= Len(cur.polls[pollId].encryptedCounts) THEN Ok(cur, <<>>)
    ELSE LET handle == cur.polls[pollId].encryptedCounts[i + 1].h IN
         IF handle \notin cur.allowed THEN Revert(pre, cur, "SenderNotAllowed")
         ELSE PublishLoop(pre, [cur EXCEPT !.public = @ \cup {handle}],
                          pollId, i + 1)

\* finalizePoll accepting the very tick of endTime (< for <=).
FinalizePollTxAtEndTime(S, sender, pollId, t) ==
    LET poll == S.polls[pollId] IN
    IF ~PollExists(poll) THEN Revert(S, S, "PollNotFound")
    ELSE IF t < poll.endTime THEN Revert(S, S, "PollStillRunning")
    ELSE IF poll.finalized THEN Revert(S, S, "PollAlreadyFinalized")
    ELSE PublishLoop(S, [S EXCEPT !.polls[pollId].finalized = TRUE], pollId, 0)

\* finalizePoll making its caller the creator of the poll.
FinalizePollTxTakingOwnership(S, sender, pollId, t) ==
    LET poll == S.polls[pollId] IN
    IF ~PollExists(poll) THEN Revert(S, S, "PollNotFound")
    ELSE IF t <= poll.endTime THEN Revert(S, S, "PollStillRunning")
    ELSE IF poll.finalized THEN Revert(S, S, "PollAlreadyFinalized")
    ELSE PublishLoop(S, [S EXCEPT !.polls[pollId].finalized = TRUE,
                                  !.polls[pollId].creator = sender], pollId, 0)

\* finalizePoll closing every existing poll along with the one named.
FinalizePollTxClosingAll(S, sender, pollId, t) ==
    LET poll == S.polls[pollId]
        S1 == [S EXCEPT !.polls =
                  [q \in DOMAIN S.polls |->
                      IF PollExists(S.polls[q])
                      THEN [S.polls[q] EXCEPT !.finalized = TRUE]
                      ELSE S.polls[q]]]
    IN
    IF ~PollExists(poll) THEN Revert(S, S, "PollNotFound")
    ELSE IF t <= poll.endTime THEN Revert(S, S, "PollStillRunning")
    ELSE IF poll.finalized THEN Revert(S, S, "PollAlreadyFinalized")
    ELSE PublishLoop(S, S1, pollId, 0)

\* finalizePoll reserved to the creator of the poll.
FinalizePollTxCreatorOnly(S, sender, pollId, t) ==
    LET poll == S.polls[pollId] IN
    IF ~PollExists(poll) THEN Revert(S, S, "PollNotFound")
    ELSE IF sender # poll.creator THEN Revert(S, S, "NotCreator")
    ELSE IF t <= poll.endTime THEN Revert(S, S, "PollStillRunning")
    ELSE IF poll.finalized THEN Revert(S, S, "PollAlreadyFinalized")
    ELSE PublishLoop(S, [S EXCEPT !.polls[pollId].finalized = TRUE], pollId, 0)

\* finalizePoll marking the poll finalized even when it is still running.
FinalizePollTxMarkingEarly(S, sender, pollId, t) ==
    LET poll == S.polls[pollId]
        S1 == [S EXCEPT !.polls[pollId].finalized = TRUE]
    IN
    IF ~PollExists(poll) THEN Revert(S, S, "PollNotFound")
    ELSE IF t <= poll.endTime THEN Revert(S1, S1, "PollStillRunning")
    ELSE IF poll.finalized THEN Revert(S, S, "PollAlreadyFinalized")
    ELSE PublishLoop(S, S1, pollId, 0)

FinalizePollTx(S, sender, pollId, t) ==
    LET poll == S.polls[pollId] IN
    IF ~PollExists(poll) THEN Revert(S, S, "PollNotFound")
    ELSE IF t <= poll.endTime THEN Revert(S, S, "PollStillRunning")
    ELSE IF poll.finalized THEN Revert(S, S, "PollAlreadyFinalized")
    ELSE PublishLoop(S, [S EXCEPT !.polls[pollId].finalized = TRUE], pollId, 0)

\* ------------------------------------------------- submitDecryptedResults
\* Bytes are sequences of 0..255; a uint256 word is its 32 big-endian bytes.
RECURSIVE Zeros(_)
Zeros(n) == IF n = 0 THEN <<>> ELSE <<0>> \o Zeros(n - 1)

\* The ABI encoding of one uint32 count: 28 zero bytes, then 4 bytes.
Word(n) ==
    Zeros(28) \o << (n \div 16777216) % 256, (n \div 65536) % 256,
                    (n \div 256) % 256, n % 256 >>

RECURSIVE AbiEncode(_)
AbiEncode(counts) ==
    IF counts = <<>> THEN <<>> ELSE Word(Head(counts)) \o AbiEncode(Tail(counts))

\* mload(add(add(encodedValues, 0x20), mul(i, 0x20))): the i-th 32-byte word.
MLoad(encodedValues, i) == SubSeq(encodedValues, 32 * i + 1, 32 * i + 32)

\* decodedCounts[i] > type(uint32).max: some byte above the low four is set.
ExceedsUint32(word) == \E k \in 1 .. 28 : word[k] # 0

\* uint32(decodedCounts[i]): the low four bytes.
ToUint32(word) ==
    word[29] * 16777216 + word[30] * 65536 + word[31] * 256 + word[32]

\* _decodeClearValues reading the words from the last to the first.
DecodeClearValuesReversed(encodedValues, expectedLength) ==
    [i \in 1 .. expectedLength |-> MLoad(encodedValues, expectedLength - i)]

\* _decodeClearValues (its length check is the caller's first branch below).
DecodeClearValues(encodedValues, expectedLength) ==
    [i \in 1 .. expectedLength |-> MLoad(encodedValues, i - 1)]

\* euint32.unwrap of every counter: the handles the proof must be about.
Handles(poll) ==
    [i \in 1 .. Len(poll.encryptedCounts) |-> poll.encryptedCounts[i].h]

\* A decryption proof is the subsystem's signature over a list of handles
\* and the bytes claimed to be their cleartexts.
Sign(handles, encoded) == <<handles, encoded>>

\* FHE.checkSignatures: the proof must sign exactly these handles and bytes.
CheckSignatures(handles, encoded, proof) == proof = Sign(handles, encoded)

\* The storing loop with the range check dropped: the cast truncates.
RECURSIVE StoreLoopTruncating(_, _, _, _, _, _, _)
StoreLoopTruncating(pre, cur, pollId, decodedCounts, i, encodedCounts, proof) ==
    IF i >= Len(decodedCounts)
    THEN Ok([cur EXCEPT !.polls[pollId].encodedClearResults = encodedCounts,
                        !.polls[pollId].decryptionProof = proof,
                        !.polls[pollId].resultsSubmitted = TRUE], <<>>)
    ELSE StoreLoopTruncating(pre,
                   [cur EXCEPT !.polls[pollId].decryptedCounts =
                                   Append(@, ToUint32(decodedCounts[i + 1]))],
                   pollId, decodedCounts, i + 1, encodedCounts, proof)

\* The storing loop failing on an oversized count without undoing the
\* counts stored before it.
RECURSIVE StoreLoopKeepingWrites(_, _, _, _, _, _, _)
StoreLoopKeepingWrites(pre, cur, pollId, decodedCounts, i, encodedCounts, proof) ==
    IF i >= Len(decodedCounts)
    THEN Ok([cur EXCEPT !.polls[pollId].encodedClearResults = encodedCounts,
                        !.polls[pollId].decryptionProof = proof,
                        !.polls[pollId].resultsSubmitted = TRUE], <<>>)
    ELSE IF ExceedsUint32(decodedCounts[i + 1])
         THEN Revert(cur, cur, "CountExceedsLimit")
    ELSE StoreLoopKeepingWrites(pre,
                   [cur EXCEPT !.polls[pollId].decryptedCounts =
                                   Append(@, ToUint32(decodedCounts[i + 1]))],
                   pollId, decodedCounts, i + 1, encodedCounts, proof)

\* The loop that stores the decoded counts, then the three final writes.
RECURSIVE StoreLoop(_, _, _, _, _, _, _)
StoreLoop(pre, cur, pollId, decodedCounts, i, encodedCounts, proof) ==
    IF i >= Len(decodedCounts)
    THEN Ok([cur EXCEPT !.polls[pollId].encodedClearResults = encodedCounts,
                        !.polls[pollId].decryptionProof = proof,
                        !.polls[pollId].resultsSubmitted = TRUE], <<>>)
    ELSE IF ExceedsUint32(decodedCounts[i + 1])
         THEN Revert(pre, cur, "CountExceedsLimit")
    ELSE StoreLoop(pre,
                   [cur EXCEPT !.polls[pollId].decryptedCounts =
                                   Append(@, ToUint32(decodedCounts[i + 1]))],
                   pollId, decodedCounts, i + 1, encodedCounts, proof)

\* submitDecryptedResults without the ResultsAlreadySubmitted guard.
SubmitDecryptedResultsTxRepeatable(S, sender, pollId, encodedCounts, proof) ==
    LET poll == S.polls[pollId]
        optionCount == Len(poll.encryptedCounts)
    IN
    IF ~PollExists(poll) THEN Revert(S, S, "PollNotFound")
    ELSE IF ~poll.finalized THEN Revert(S, S, "PollNotFinalized")
    ELSE IF ~CheckSignatures(Handles(poll), encodedCounts, proof)
         THEN Revert(S, S, "InvalidSignatures")
    ELSE IF Len(encodedCounts) # optionCount * 32
         THEN Revert(S, S, "InvalidResultsLength")
    ELSE StoreLoop(S, [S EXCEPT !.polls[pollId].decryptedCounts = <<>>], pollId,
                   DecodeClearValues(encodedCounts, optionCount), 0,
                   encodedCounts, proof)

\* submitDecryptedResults without the call of FHE.checkSignatures.
SubmitDecryptedResultsTxUnverified(S, sender, pollId, encodedCounts, proof) ==
    LET poll == S.polls[pollId]
        optionCount == Len(poll.encryptedCounts)
    IN
    IF ~PollExists(poll) THEN Revert(S, S, "PollNotFound")
    ELSE IF ~poll.finalized THEN Revert(S, S, "PollNotFinalized")
    ELSE IF poll.resultsSubmitted THEN Revert(S, S, "ResultsAlreadySubmitted")
    ELSE IF Len(encodedCounts) # optionCount * 32
         THEN Revert(S, S, "InvalidResultsLength")
    ELSE StoreLoop(S, [S EXCEPT !.polls[pollId].decryptedCounts = <<>>], pollId,
                   DecodeClearValues(encodedCounts, optionCount), 0,
                   encodedCounts, proof)

\* submitDecryptedResults without the PollNotFinalized guard.
SubmitDecryptedResultsTxUnfinalized(S, sender, pollId, encodedCounts, proof) ==
    LET poll == S.polls[pollId]
        optionCount == Len(poll.encryptedCounts)
    IN
    IF ~PollExists(poll) THEN Revert(S, S, "PollNotFound")
    ELSE IF poll.resultsSubmitted THEN Revert(S, S, "ResultsAlreadySubmitted")
    ELSE IF ~CheckSignatures(Handles(poll), encodedCounts, proof)
         THEN Revert(S, S, "InvalidSignatures")
    ELSE IF Len(encodedCounts) # optionCount * 32
         THEN Revert(S, S, "InvalidResultsLength")
    ELSE StoreLoop(S, [S EXCEPT !.polls[pollId].decryptedCounts = <<>>], pollId,
                   DecodeClearValues(encodedCounts, optionCount), 0,
                   encodedCounts, proof)

SubmitDecryptedResultsTx(S, sender, pollId, encodedCounts, proof) ==
    LET poll == S.polls[pollId]
        optionCount == Len(poll.encryptedCounts)
    IN
    IF ~PollExists(poll) THEN Revert(S, S, "PollNotFound")
    ELSE IF ~poll.finalized THEN Revert(S, S, "PollNotFinalized")
    ELSE IF poll.resultsSubmitted THEN Revert(S, S, "ResultsAlreadySubmitted")
    ELSE IF ~CheckSignatures(Handles(poll), encodedCounts, proof)
         THEN Revert(S, S, "InvalidSignatures")
    ELSE IF Len(encodedCounts) # optionCount * 32
         THEN Revert(S, S, "InvalidResultsLength")
    ELSE StoreLoop(S, [S EXCEPT !.polls[pollId].decryptedCounts = <<>>], pollId,
                   DecodeClearValues(encodedCounts, optionCount), 0,
                   encodedCounts, proof)

\* ------------------------------------------------------------------ reads
\* _copyOptions: the options list, element by element.
CopyOptions(poll) == [i \in 1 .. Len(poll.options) |-> poll.options[i]]

\* getPoll without the existence check.
GetPollUnchecked(S, pollId) ==
    LET poll == S.polls[pollId] IN
    Ok(S, [ title |-> poll.title, description |-> poll.description,
            options |-> CopyOptions(poll),
            startTime |-> poll.startTime, endTime |-> poll.endTime,
            finalized |-> poll.finalized,
            resultsSubmitted |-> poll.resultsSubmitted,
            creator |-> poll.creator ])

\* getPoll: the metadata and the two flags of an existing poll.
GetPoll(S, pollId) ==
    LET poll == S.polls[pollId] IN
    IF ~PollExists(poll) THEN Revert(S, S, "PollNotFound")
    ELSE Ok(S, [ title |-> poll.title, description |-> poll.description,
                 options |-> CopyOptions(poll),
                 startTime |-> poll.startTime, endTime |-> poll.endTime,
                 finalized |-> poll.finalized,
                 resultsSubmitted |-> poll.resultsSubmitted,
                 creator |-> poll.creator ])

\* getEncryptedResults: the counter handles of an existing poll.
GetEncryptedResults(S, pollId) ==
    LET poll == S.polls[pollId] IN
    IF ~PollExists(poll) THEN Revert(S, S, "PollNotFound")
    ELSE Ok(S, [i \in 1 .. Len(poll.encryptedCounts) |-> poll.encryptedCounts[i]])

\* getResultVerification without the requirement that results are submitted.
GetResultVerificationUnguarded(S, pollId) ==
    LET poll == S.polls[pollId] IN
    IF ~PollExists(poll) THEN Revert(S, S, "PollNotFound")
    ELSE Ok(S, <<poll.encodedClearResults, poll.decryptionProof>>)

\* getResultVerification: the stored encoding and proof, once results are
\* submitted.
GetResultVerification(S, pollId) ==
    LET poll == S.polls[pollId] IN
    IF ~PollExists(poll) THEN Revert(S, S, "PollNotFound")
    ELSE IF ~poll.resultsSubmitted THEN Revert(S, S, "RESULTS_NOT_AVAILABLE")
    ELSE Ok(S, <<poll.encodedClearResults, poll.decryptionProof>>)

\* hasVoted: the vote record, whatever the poll id.
HasVoted(S, pollId, account) == S.pollVotes[pollId][account]

\* getDecryptedResults: the stored counts, once results are submitted.
GetDecryptedResults(S, pollId) ==
    LET poll == S.polls[pollId] IN
    IF ~PollExists(poll) THEN Revert(S, S, "PollNotFound")
    ELSE IF ~poll.resultsSubmitted THEN Revert(S, S, "RESULTS_NOT_AVAILABLE")
    ELSE Ok(S, [i \in 1 .. Len(poll.decryptedCounts) |-> poll.decryptedCounts[i]])

\* ------------------------------------------- what the environment submits
\* The cleartext of every counter: what a decryption of the handles yields.
Plain(poll) ==
    [i \in 1 .. Len(poll.encryptedCounts) |-> poll.encryptedCounts[i].v]

\* The relayer's publicDecrypt of a poll's counters: the ABI-encoded
\* cleartexts and the proof signing them.
PublicDecrypt(poll) ==
    [ abiEncodedClearValues |-> AbiEncode(Plain(poll)),
      decryptionProof |-> Sign(Handles(poll), AbiEncode(Plain(poll))) ]

\* A word holding 2^32, the least count that does not fit 32 bits, and a
\* word holding 2^31 - 1 (counts of the model stay below 2^31).
WordTwoPow32 == Zeros(27) \o <<1, 0, 0, 0, 0>>
WordBig == Zeros(28) \o <<127, 255, 255, 255>>

ReplaceWord(encoded, i, word) ==
    SubSeq(encoded, 1, 32 * i) \o word \o SubSeq(encoded, 32 * i + 33, Len(encoded))

\* Byte strings a caller may submit for a poll: the genuine encoding, the
\* encoding cut short or extended, and encodings with one word replaced.
EncodedInputs(poll) ==
    LET g == AbiEncode(Plain(poll))
        n == Len(poll.encryptedCounts)
    IN  {g, g \o <<0>>}
        \cup (IF n = 0 THEN {}
              ELSE { SubSeq(g, 1, Len(g) - 1),
                     ReplaceWord(g, 0, Word(Plain(poll)[1] + 1)),
                     ReplaceWord(g, 0, WordBig),
                     ReplaceWord(g, 0, WordTwoPow32),
                     ReplaceWord(g, n - 1, WordTwoPow32) })

\* The (encodedCounts, proof) pairs a caller may submit for a poll: every
\* byte string above under a signature over the poll's handles and these very
\* bytes, altered bytes under the genuine proof, and the genuine bytes under
\* a signature over other handles.
DecryptionInputs(poll) ==
    LET g == PublicDecrypt(poll) IN
    { <<enc, Sign(Handles(poll), enc)>> : enc \in EncodedInputs(poll) }
    \cup { <<g.abiEncodedClearValues \o <<0>>, g.decryptionProof>>,
           <<g.abiEncodedClearValues, Sign(<< <<-9>> >>, g.abiEncodedClearValues)>> }

\* ----------------------------------------------------------------- steps
\* The validation rules of createPoll that an input breaks (kept with the
\* outcome of a createPoll call, as a record of what was submitted).
Broken(title, options, startTime, endTime, t) ==
    (IF title = "" THEN {"EmptyTitle"} ELSE {})
    \cup (IF Len(options) < MIN_OPTIONS \/ Len(options) > MAX_OPTIONS
          THEN {"InvalidOptionCount"} ELSE {})
    \cup (IF \E i \in 1 .. Len(options) : options[i] = ""
          THEN {"EmptyOption"} ELSE {})
    \cup (IF endTime <= startTime \/ endTime <= t
          THEN {"InvalidSchedule"} ELSE {})

\* The preconditions of submitVote that a call breaks.
BrokenVote(S, sender, pollId, t) ==
    LET poll == S.polls[pollId] IN
    (IF ~PollExists(poll) THEN {"PollNotFound"} ELSE {})
    \cup (IF t < poll.startTime THEN {"VotingNotStarted"} ELSE {})
    \cup (IF t > poll.endTime THEN {"VotingFinished"} ELSE {})
    \cup (IF S.pollVotes[pollId][sender] THEN {"AlreadyVoted"} ELSE {})

\* The notifications of the contract.  An event has a name, the poll id and,
\* by kind, an address, a title or the clear results; the fields a kind does
\* not carry are left at their zero value.
PollCreatedEvent(pollId, creator, title) ==
    [name |-> "PollCreated", pollId |-> pollId, who |-> creator,
     title |-> title, clearResults |-> <<>>]
VoteSubmittedEvent(pollId, voter) ==
    [name |-> "VoteSubmitted", pollId |-> pollId, who |-> voter,
     title |-> "", clearResults |-> <<>>]
PollFinalizedEvent(pollId, caller) ==
    [name |-> "PollFinalized", pollId |-> pollId, who |-> caller,
     title |-> "", clearResults |-> <<>>]
ResultsPublishedEvent(pollId, clearResults) ==
    [name |-> "ResultsPublished", pollId |-> pollId, who |-> NoAddress,
     title |-> "", clearResults |-> clearResults]

\* The log of a transaction: the event of its last statement if it returns
\* normally, nothing if it reverts.
Emitted(r, event) == IF r.err = "ok" THEN <<event>> ELSE <<>>

\* A transaction: the storage becomes the outcome's storage and the outcome
\* is what the caller observes.
Commit(op, pollId, r, broken, event) ==
    /\ pollCount' = r.st.pollCount
    /\ polls' = r.st.polls
    /\ pollVotes' = r.st.pollVotes
    /\ allowed' = r.st.allowed
    /\ public' = r.st.public
    /\ last' = [op |-> op, pollId |-> pollId, err |-> r.err, broken |-> broken,
                events |-> Emitted(r, event), undone |-> r.undone]

\* ------------------------------------------------------- CreatePollForm
\* The form keeps between two and four option inputs.
FormMinOptions == 2
FormMaxOptions == 4

\* The handleSubmit invocations that may be in progress side by side.
MaxCalls == 2
Calls == 1 .. MaxCalls

\* What a user types into a text input: nothing, blanks, or a padded word.
FormTexts == {"", " ", " Beta "}

\* String.prototype.trim on the texts of the model: the white space at both
\* ends is removed.
Trim(text) ==
    CASE text = " " -> ""
      [] text = " Beta " -> "Beta"
      [] OTHER -> text

\* The value of a datetime-local input: <<>> for the empty string, or <<ms>>
\* for a date, ms being what new Date(value).getTime() returns.
FormStartDates == {<<>>, <<0>>, <<1000>>}
FormEndDates == {<<>>, <<1500>>}

\* Math.floor(new Date(date).getTime() / 1000)
Timestamp(date) == date[1] \div 1000

\* The component's state after its first render.
FormState ==
    [ title |-> "", description |-> "", options |-> <<"", "">>,
      startDate |-> <<>>, endDate |-> <<>>, submitting |-> FALSE ]

\* An invocation of handleSubmit is suspended at one of its awaits: "signer"
\* (await signerPromise), "tx" (contract.createPoll has been called and the
\* transaction is awaited) or "created" (await onCreated); `closure` holds
\* the state values the invocation captured.  A slot with pc "done" is free.
NoCall == [pc |-> "done", closure |-> FormState]

\* addOption, run in a render that shows `shown`: the updater is applied to
\* the current state f.
addOption(shown, f) ==
    IF Len(shown.options) >= FormMaxOptions THEN f
    ELSE [f EXCEPT !.options = Append(@, "")]

\* updateOption; `index` counts from 1 here.
updateOption(f, index, value) ==
    [f EXCEPT !.options =
        [i \in 1 .. Len(@) |-> IF i = index THEN value ELSE @[i]]]

\* removeOption; `index` counts from 1 here.
removeOption(shown, f, index) ==
    IF Len(shown.options) <= FormMinOptions THEN f
    ELSE [f EXCEPT !.options =
             IF index \in 1 .. Len(@)
             THEN SubSeq(@, 1, index - 1) \o SubSeq(@, index + 1, Len(@))
             ELSE @]

resetForm(f) ==
    [f EXCEPT !.title = "", !.description = "", !.options = <<"", "">>,
              !.startDate = <<>>, !.endDate = <<>>]

NonEmpty(text) == text # ""

\* The options trimmed, the empty ones kept.
TrimmedOptionsUnfiltered(options) ==
    [i \in 1 .. Len(options) |-> Trim(options[i])]

\* options.map((option) => option.trim()).filter(Boolean)
TrimmedOptions(options) ==
    SelectSeq([i \in 1 .. Len(options) |-> Trim(options[i])], NonEmpty)

\* handleSubmit from the resolution of the signer to the call of
\* contract.createPoll: the alert it raises, or the arguments it passes.
handleSubmit(c, signer) ==
    LET trimmedOptions == TrimmedOptions(c.options) IN
    IF ~signer THEN [alert |-> "Connect your wallet to create a poll.", args |-> <<>>]
    ELSE IF Len(trimmedOptions) < FormMinOptions
         THEN [alert |-> "Please provide at least two options.", args |-> <<>>]
    ELSE IF Trim(c.title) = "" \/ c.startDate = <<>> \/ c.endDate = <<>>
         THEN [alert |-> "Fill in every field to continue.", args |-> <<>>]
    ELSE IF Timestamp(c.endDate) <= Timestamp(c.startDate)
         THEN [alert |-> "End time must be greater than start time.", args |-> <<>>]
    ELSE [alert |-> "",
          args |-> << [ title |-> Trim(c.title),
                        description |-> Trim(c.description),
                        options |-> trimmedOptions,
                        startTimestamp |-> Timestamp(c.startDate),
                        endTimestamp |-> Timestamp(c.endDate) ] >>]

Init ==
    /\ now = 0
    /\ pollCount = 0
    /\ polls = [p \in LedgerIds |-> EmptyPoll]
    /\ pollVotes = [p \in LedgerIds |-> [u \in Users |-> FALSE]]
    /\ allowed = {}
    /\ public = {}
    /\ ballots = [p \in LedgerIds |-> [u \in Users |-> <<>>]]
    /\ creations = <<>>
    /\ last = [op |-> "constructor", pollId |-> 0, err |-> "ok", broken |-> {},
               events |-> <<>>, undone |-> FALSE]
    /\ form = FormState
    /\ view = FormState
    /\ calls = [c \in Calls |-> NoCall]
    /\ sent = <<>>

\* createPoll, enabled while the id after the next one is among `ids`.
CreatePollIn(ids, sender, title, description, options, startTime, endTime) ==
    /\ pollCount + 1 \in ids
    /\ LET r == CreatePollTx(Storage, sender, title, description, options,
                             startTime, endTime, now)
       IN  /\ Commit("createPoll", pollCount, r,
                     Broken(title, options, startTime, endTime, now),
                     PollCreatedEvent(pollCount, sender, title))
           /\ creations' =
                 IF r.err = "ok"
                 THEN Append(creations,
                             [ id |-> r.ret, creator |-> sender, title |-> title,
                               description |-> description, options |-> options,
                               startTime |-> startTime, endTime |-> endTime ])
                 ELSE creations
    /\ UNCHANGED <<now, ballots>>

CreatePoll(sender, title, description, options, startTime, endTime) ==
    /\ CreatePollIn(PollIds, sender, title, description, options, startTime, endTime)
    /\ UNCHANGED formVars

SubmitVote(sender, pollId, ct) ==
    /\ LET r == SubmitVoteTx(Storage, sender, pollId, ct, now)
       IN  /\ Commit("submitVote", pollId, r,
                     BrokenVote(Storage, sender, pollId, now),
                     VoteSubmittedEvent(pollId, sender))
           /\ ballots' = IF r.err = "ok"
                         THEN [ballots EXCEPT ![pollId][sender] = Append(@, ct.val)]
                         ELSE ballots
    /\ UNCHANGED <<now, creations>>
    /\ UNCHANGED formVars

FinalizePoll(sender, pollId) ==
    /\ Commit("finalizePoll", pollId,
              FinalizePollTx(Storage, sender, pollId, now), {},
              PollFinalizedEvent(pollId, sender))
    /\ UNCHANGED <<now, ballots, creations>>
    /\ UNCHANGED formVars

SubmitDecryptedResults(sender, pollId, encodedCounts, proof) ==
    /\ LET r == SubmitDecryptedResultsTx(Storage, sender, pollId, encodedCounts, proof)
       IN  Commit("submitDecryptedResults", pollId, r, {},
                  ResultsPublishedEvent(pollId, r.st.polls[pollId].decryptedCounts))
    /\ UNCHANGED <<now, ballots, creations>>
    /\ UNCHANGED formVars

\* The ledger's clock: block.timestamp never decreases.
Tick ==
    /\ now < MaxTime
    /\ now' = now + 1
    /\ UNCHANGED <<pollCount, polls, pollVotes, allowed, public, ballots,
                   creations, last>>
    /\ UNCHANGED formVars

Next ==
    \/ \E u \in Users, ti \in Titles, d \in Descriptions, o \in OptionInputs,
          s \in Times, e \in Times : CreatePoll(u, ti, d, o, s, e)
    \/ \E u \in Users, p \in PollIds :
          \E ct \in VoteInputs(u) : SubmitVote(u, p, ct)
    \/ \E u \in Users, p \in PollIds : FinalizePoll(u, p)
    \/ \E u \in Users, p \in PollIds :
          \E d \in DecryptionInputs(polls[p]) :
             SubmitDecryptedResults(u, p, d[1], d[2])
    \/ Tick

Spec == Init /\ [][Next]_vars

\* The same steps under the scheduling the lifecycle counts on: time keeps
\* advancing (up to the horizon of the model), and a finalizePoll call or a
\* submission of the genuine decryption that would succeed is eventually made.
Finalizes == \E u \in Users, p \in PollIds : FinalizePoll(u, p) /\ last'.err = "ok"
PublishesGenuine ==
    \E u \in Users, p \in PollIds :
       /\ SubmitDecryptedResults(u, p, PublicDecrypt(polls[p]).abiEncodedClearValues,
                                 PublicDecrypt(polls[p]).decryptionProof)
       /\ last'.err = "ok"

SpecFair ==
    /\ Init /\ [][Next]_vars
    /\ WF_vars(Tick) /\ WF_vars(Finalizes) /\ WF_vars(PublishesGenuine)

\* The ledger of several polls: two polls may be created, side by side, each
\* with two options and one voter; the inputs are otherwise the ones above.
LedgerOptionInputs == { <<"Alpha">>, <<"Alpha", "Beta">>, <<"Alpha", "">> }
LedgerVoteInputs == { ct \in ExternalInputs : ct.owner = "alice" /\ ct.val <= 1 }

CreatePollLedger(sender, title, description, options, startTime, endTime) ==
    /\ CreatePollIn(LedgerIds, sender, title, description, options, startTime, endTime)
    /\ UNCHANGED formVars

NextLedger ==
    \/ \E u \in Users, ti \in Titles, d \in Descriptions, o \in LedgerOptionInputs,
          e \in Times : CreatePollLedger(u, ti, d, o, 0, e)
    \/ \E p \in LedgerIds, ct \in LedgerVoteInputs : SubmitVote("alice", p, ct)
    \/ \E p \in LedgerIds : FinalizePoll("bob", p)
    \/ \E p \in LedgerIds :
          SubmitDecryptedResults("bob", p,
                                 PublicDecrypt(polls[p]).abiEncodedClearValues,
                                 PublicDecrypt(polls[p]).decryptionProof)
    \/ Tick

SpecLedger == Init /\ [][NextLedger]_vars

\* ------------------------------------------------ CreatePollForm, steps
ledgerVars == <<now, pollCount, polls, pollVotes, allowed, public, ballots,
                creations, last>>

\* No submission is in progress.  The user of the model edits the options and
\* the dates then, and the title at any time.
Idle == \A c \in Calls : calls[c].pc = "done"

\* The account of the connected wallet.
FormUser == "alice"

\* An input or button event of the user.  The controls are disabled while
\* the render shows `submitting`; the handler runs against the current state
\* and React renders the outcome before the next event.
UiEvent(f) ==
    /\ ~view.submitting
    /\ form' = f
    /\ view' = f
    /\ UNCHANGED <<calls, sent>>
    /\ UNCHANGED ledgerVars

SetTitle(value) ==
    /\ value \in FormTexts
    /\ UiEvent([form EXCEPT !.title = value])

SetStartDate(value) ==
    /\ value \in FormStartDates
    /\ Idle
    /\ UiEvent([form EXCEPT !.startDate = value])

SetEndDate(value) ==
    /\ value \in FormEndDates
    /\ Idle
    /\ UiEvent([form EXCEPT !.endDate = value])

\* The add button is disabled at four shown options.
AddOption ==
    /\ Len(view.options) < FormMaxOptions
    /\ Idle
    /\ UiEvent(addOption(view, form))

UpdateOption(index, value) ==
    /\ index \in 1 .. Len(view.options)
    /\ Idle
    /\ UiEvent(updateOption(form, index, value))

\* The remove buttons are shown above two options.
RemoveOption(index) ==
    /\ Len(view.options) > FormMinOptions
    /\ index \in 1 .. Len(view.options)
    /\ Idle
    /\ UiEvent(removeOption(view, form, index))

\* A submit event: handleSubmit starts with the values of the latest render
\* and, `submitting` being false there, runs up to `await signerPromise`.
\* The submit button is disabled in a render that shows `submitting`.
SubmitEvent ==
    /\ ~view.submitting
    /\ \E c \in Calls :
          /\ calls[c].pc = "done"
          /\ \A d \in Calls : d < c => calls[d].pc # "done"
          /\ calls' = [calls EXCEPT ![c] = [pc |-> "signer", closure |-> view]]
    /\ UNCHANGED <<form, view, sent>>
    /\ UNCHANGED ledgerVars

\* The signer promise resolves, with a signer or without one, and the
\* invocation runs on to its next await: it validates the captured values
\* and either alerts and returns, or sets `submitting` and calls
\* contract.createPoll.
SignerResolves(c, signer) ==
    /\ calls[c].pc = "signer"
    /\ LET r == handleSubmit(calls[c].closure, signer) IN
          IF r.alert # ""
          THEN /\ calls' = [calls EXCEPT ![c] = NoCall]
               /\ UNCHANGED <<form, sent>>
          ELSE /\ calls' = [calls EXCEPT ![c].pc = "tx"]
               /\ form' = [form EXCEPT !.submitting = TRUE]
               /\ sent' = r.args
    /\ UNCHANGED view
    /\ UNCHANGED ledgerVars

\* The transaction of an invocation is executed by the contract.  When it
\* succeeds the invocation resets the form and awaits onCreated; when it
\* reverts the invocation alerts and clears `submitting`.
TxMined(c) ==
    /\ calls[c].pc = "tx"
    /\ LET a == handleSubmit(calls[c].closure, TRUE).args[1] IN
          CreatePollIn(PollIds, FormUser, a.title, a.description, a.options,
                       a.startTimestamp, a.endTimestamp)
    /\ IF last'.err = "ok"
       THEN /\ form' = resetForm(form)
            /\ calls' = [calls EXCEPT ![c] = [pc |-> "created", closure |-> FormState]]
       ELSE /\ form' = [form EXCEPT !.submitting = FALSE]
            /\ calls' = [calls EXCEPT ![c] = NoCall]
    /\ UNCHANGED <<view, sent>>

\* The wallet or the provider rejects the call: the invocation alerts and
\* clears `submitting`.
TxRejected(c) ==
    /\ calls[c].pc = "tx"
    /\ form' = [form EXCEPT !.submitting = FALSE]
    /\ calls' = [calls EXCEPT ![c] = NoCall]
    /\ UNCHANGED <<view, sent>>
    /\ UNCHANGED ledgerVars

\* onCreated settles and the invocation clears `submitting`.
Created(c) ==
    /\ calls[c].pc = "created"
    /\ form' = [form EXCEPT !.submitting = FALSE]
    /\ calls' = [calls EXCEPT ![c] = NoCall]
    /\ UNCHANGED <<view, sent>>
    /\ UNCHANGED ledgerVars

\* React renders the state updates made outside of an event.
Render ==
    /\ view # form
    /\ view' = form
    /\ UNCHANGED <<form, calls, sent>>
    /\ UNCHANGED ledgerVars

\* The form in front of the contract: the user's events, the steps of the
\* submissions and the clock of the ledger.
NextForm ==
    \/ \E value \in FormTexts : SetTitle(value)
    \/ \E value \in FormStartDates : SetStartDate(value)
    \/ \E value \in FormEndDates : SetEndDate(value)
    \/ AddOption
    \/ \E index \in 1 .. FormMaxOptions, value \in FormTexts :
          UpdateOption(index, value)
    \/ \E index \in 1 .. FormMaxOptions : RemoveOption(index)
    \/ SubmitEvent
    \/ \E c \in Calls, signer \in BOOLEAN : SignerResolves(c, signer)
    \/ \E c \in Calls : TxMined(c)
    \/ \E c \in Calls : TxRejected(c)
    \/ \E c \in Calls : Created(c)
    \/ Render
    \/ Tick

SpecForm == Init /\ [][NextForm]_vars

\* ================================================================ claims
RECURSIVE SumSeq(_)
SumSeq(q) == IF q = <<>> THEN 0 ELSE Head(q) + SumSeq(Tail(q))

Voters(p) == {u \in Users : pollVotes[p][u]}

\* The number of voters whose accepted vote on poll p chose `choice`.
VotesFor(p, choice) ==
    Cardinality({u \in Users : ballots[p][u] # <<>> /\ ballots[p][u][1] = choice})

\* Poll p holds published results that are the genuine decryption of its
\* counters: the pair the relayer's publicDecrypt returns for them.
GenuinelyPublished(p) ==
    /\ polls[p].resultsSubmitted
    /\ polls[p].encodedClearResults = PublicDecrypt(polls[p]).abiEncodedClearValues
    /\ polls[p].decryptionProof = PublicDecrypt(polls[p]).decryptionProof

InWindow(p) == polls[p].startTime <= now /\ now <= polls[p].endTime

\* C1: per (poll, voter) at most one submitVote is ever accepted; once the
\* voter is recorded, every submitVote of theirs on that poll fails, with
\* AlreadyVoted inside the voting window, and leaves the storage (every
\* encrypted counter included) as it was.
C1_SingleVote ==
    /\ [](\A p \in PollIds, u \in Users :
            /\ Len(ballots[p][u]) <= 1
            /\ pollVotes[p][u] <=> ballots[p][u] # <<>>
            /\ pollVotes[p][u] =>
                 \A ct \in ExternalInputs :
                    LET r == SubmitVoteTx(Storage, u, p, ct, now) IN
                    /\ r.err # "ok"
                    /\ r.st = Storage
                    /\ InWindow(p) => r.err = "AlreadyVoted")
    /\ [][\A p \in PollIds, u \in Users :
            pollVotes[p][u] => pollVotes'[p][u] /\ ballots'[p][u] = ballots[p][u]]_vars

\* A second attempt inside the window was rejected.
C1_Witness ==
    /\ last.op = "submitVote"
    /\ last.err = "AlreadyVoted"
    /\ Voters(last.pollId) # {}
    /\ \E i \in 1 .. Len(polls[last.pollId].encryptedCounts) :
          polls[last.pollId].encryptedCounts[i].v = 1

\* C2: whenever a poll has resultsSubmitted, the stored (encodedClearResults,
\* decryptionProof) pair passes the proof check against that poll's counter
\* handles; a submitDecryptedResults call whose pair does not pass is
\* rejected and leaves the storage untouched.
C2_OnlyVerifiedResults ==
    \A p \in PollIds :
       /\ polls[p].resultsSubmitted =>
             CheckSignatures(Handles(polls[p]), polls[p].encodedClearResults,
                             polls[p].decryptionProof)
       /\ \A u \in Users : \A d \in DecryptionInputs(polls[p]) :
             ~CheckSignatures(Handles(polls[p]), d[1], d[2]) =>
                LET r == SubmitDecryptedResultsTx(Storage, u, p, d[1], d[2]) IN
                r.err # "ok" /\ r.st = Storage

\* Results were published for a poll that received votes.
C2_Witness ==
    \E p \in PollIds :
       /\ polls[p].resultsSubmitted
       /\ polls[p].decryptionProof # NoBytes
       /\ Voters(p) # {}

\* C3: once the genuine decryption of a poll's counters is published,
\* getDecryptedResults returns, for every option index i, the number of
\* voters whose accepted vote chose i.
C3_TallyMatchesVotes ==
    \A p \in PollIds :
       GenuinelyPublished(p) =>
          LET r == GetDecryptedResults(Storage, p) IN
          /\ r.err = "ok"
          /\ Len(r.ret) = Len(polls[p].options)
          /\ \A i \in 1 .. Len(r.ret) : r.ret[i] = VotesFor(p, i - 1)

\* The end-to-end case: three options, one vote for index 1, one for index 2.
C3_Witness ==
    \E p \in PollIds :
       /\ GenuinelyPublished(p)
       /\ Len(polls[p].options) = 3
       /\ GetDecryptedResults(Storage, p).ret = <<0, 1, 1>>

\* C4 (as claimed): for every poll whose genuine decryption is published,
\* the sum of decryptedCounts equals the number of voters whose submitVote
\* succeeded, whatever value each voter encrypted.
C4_SumEqualsVoters ==
    \A p \in PollIds :
       GenuinelyPublished(p) =>
          SumSeq(polls[p].decryptedCounts) = Cardinality(Voters(p))

\* C5: on an existing poll submitVote fails with VotingNotStarted before
\* startTime and with VotingFinished after endTime, leaving the storage as
\* it was; at exactly startTime and at exactly endTime a first vote with a
\* valid input proof is accepted.
C5_VotingWindow ==
    \A p \in PollIds, u \in Users : \A ct \in ExternalInputs :
       PollExists(polls[p]) =>
          LET r == SubmitVoteTx(Storage, u, p, ct, now) IN
          /\ now < polls[p].startTime =>
                r.err = "VotingNotStarted" /\ r.st = Storage
          /\ now > polls[p].endTime =>
                r.err = "VotingFinished" /\ r.st = Storage
          /\ ( /\ now \in {polls[p].startTime, polls[p].endTime}
               /\ ~pollVotes[p][u]
               /\ InputProofVerifies(ct, u) ) =>
                r.err = "ok" /\ r.st.pollVotes[p][u]

\* A poll received a vote inside its window and refused a later one for
\* coming after endTime.
C5_Witness ==
    /\ last.op = "submitVote"
    /\ last.err = "VotingFinished"
    /\ PollExists(polls[last.pollId])
    /\ Voters(last.pollId) # {}


\* C6 (as claimed): on every existing poll finalizePoll fails with
\* PollStillRunning while now <= endTime, succeeds and sets finalized when
\* now > endTime and the poll is not finalized yet, and fails with
\* PollAlreadyFinalized once it is finalized.
C6_FinalizeOnce ==
    \A p \in PollIds, u \in Users :
       PollExists(polls[p]) =>
          LET r == FinalizePollTx(Storage, u, p, now) IN
          /\ now <= polls[p].endTime => r.err = "PollStillRunning"
          /\ (now > polls[p].endTime /\ ~polls[p].finalized) =>
                r.err = "ok" /\ r.st.polls[p].finalized
          /\ polls[p].finalized => r.err = "PollAlreadyFinalized"

\* C7: a finalized poll has now > endTime, accepts no submitVote, and its
\* encrypted counters and vote records never change again; in no state can
\* both a submitVote and a finalizePoll on the same poll succeed.
C7_NoVoteAfterFinalize ==
    /\ [](\A p \in PollIds :
            /\ polls[p].finalized => now > polls[p].endTime
            /\ \A u \in Users : \A ct \in ExternalInputs :
                  LET v == SubmitVoteTx(Storage, u, p, ct, now) IN
                  /\ polls[p].finalized => v.err # "ok" /\ v.st = Storage
                  /\ \A w \in Users :
                        ~(v.err = "ok" /\ FinalizePollTx(Storage, w, p, now).err = "ok"))
    /\ [][\A p \in PollIds :
            polls[p].finalized =>
               /\ polls'[p].finalized
               /\ polls'[p].encryptedCounts = polls[p].encryptedCounts
               /\ pollVotes'[p] = pollVotes[p]
               /\ ballots'[p] = ballots[p]]_vars

\* A finalized poll refused a vote.
C7_Witness ==
    /\ last.op = "submitVote"
    /\ last.err = "VotingFinished"
    /\ polls[last.pollId].finalized

\* C8: submitDecryptedResults fails with PollNotFinalized while finalized is
\* false and with ResultsAlreadySubmitted once results are submitted; a call
\* succeeds only from resultsSubmitted = false and sets it; after that the
\* flag, decryptedCounts, encodedClearResults and decryptionProof never
\* change.
C8_PublishOnce ==
    /\ [](\A p \in PollIds, u \in Users : \A d \in DecryptionInputs(polls[p]) :
            PollExists(polls[p]) =>
               LET r == SubmitDecryptedResultsTx(Storage, u, p, d[1], d[2]) IN
               /\ ~polls[p].finalized =>
                     r.err = "PollNotFinalized" /\ r.st = Storage
               /\ polls[p].resultsSubmitted =>
                     r.err = "ResultsAlreadySubmitted" /\ r.st = Storage
               /\ r.err = "ok" =>
                     ~polls[p].resultsSubmitted /\ r.st.polls[p].resultsSubmitted)
    /\ [][\A p \in PollIds :
            polls[p].resultsSubmitted =>
               /\ polls'[p].resultsSubmitted
               /\ polls'[p].decryptedCounts = polls[p].decryptedCounts
               /\ polls'[p].encodedClearResults = polls[p].encodedClearResults
               /\ polls'[p].decryptionProof = polls[p].decryptionProof]_vars

\* A second submission was refused after a first one was stored.
C8_Witness ==
    /\ last.op = "submitDecryptedResults"
    /\ last.err = "ResultsAlreadySubmitted"
    /\ polls[last.pollId].resultsSubmitted

\* Some 32-byte word of `encoded` holds a value above 2^32 - 1.
SomeWordExceeds(encoded, n) ==
    \E i \in 0 .. n - 1 : ExceedsUint32(MLoad(encoded, i))

\* C9: on a finalized poll without results, a pair that passes the proof
\* check is rejected with InvalidResultsLength when encodedCounts is not
\* options.length * 32 bytes long and with CountExceedsLimit when a word
\* exceeds 2^32 - 1 (also when it is the last word, after in-range ones);
\* the storage, resultsSubmitted and the three result fields stay as they
\* were.
C9_DecodeErrors ==
    \A p \in PollIds, u \in Users : \A d \in DecryptionInputs(polls[p]) :
       ( /\ polls[p].finalized
         /\ ~polls[p].resultsSubmitted
         /\ CheckSignatures(Handles(polls[p]), d[1], d[2]) ) =>
          LET r == SubmitDecryptedResultsTx(Storage, u, p, d[1], d[2])
              n == Len(polls[p].options)
          IN
          /\ Len(d[1]) # n * 32 =>
                r.err = "InvalidResultsLength" /\ r.st = Storage
          /\ (Len(d[1]) = n * 32 /\ SomeWordExceeds(d[1], n)) =>
                r.err = "CountExceedsLimit" /\ r.st = Storage
          /\ r.err \in {"InvalidResultsLength", "CountExceedsLimit"} =>
                /\ ~r.st.polls[p].resultsSubmitted
                /\ r.st.polls[p].decryptedCounts = <<>>
                /\ r.st.polls[p].encodedClearResults = NoBytes
                /\ r.st.polls[p].decryptionProof = NoBytes

\* A submission was refused for a count above 32 bits and stored nothing.
C9_Witness ==
    /\ last.op = "submitDecryptedResults"
    /\ last.err = "CountExceedsLimit"
    /\ polls[last.pollId].finalized
    /\ ~polls[last.pollId].resultsSubmitted
    /\ polls[last.pollId].decryptedCounts = <<>>

\* The first error of `order` that is in `broken`, "ok" when there is none.
RECURSIVE FirstBroken(_, _)
FirstBroken(order, broken) ==
    IF order = <<>> THEN "ok"
    ELSE IF Head(order) \in broken THEN Head(order)
    ELSE FirstBroken(Tail(order), broken)

\* C10 (as claimed): createPoll reports the first broken rule in the order
\* EmptyTitle, InvalidOptionCount, EmptyOption, InvalidSchedule.
C10_ClaimedOrder ==
    last.op = "createPoll" =>
       last.err = FirstBroken(<<"EmptyTitle", "InvalidOptionCount", "EmptyOption",
                                "InvalidSchedule">>, last.broken)

\* C10 (amended): createPoll reports the first broken rule in the order
\* EmptyTitle, InvalidOptionCount, InvalidSchedule, EmptyOption, and
\* succeeds when no rule is broken.
C10_CheckOrder ==
    last.op = "createPoll" =>
       last.err = FirstBroken(<<"EmptyTitle", "InvalidOptionCount", "InvalidSchedule",
                                "EmptyOption">>, last.broken)

\* An input with an empty option and a bad schedule was rejected.
C10_Witness ==
    /\ last.op = "createPoll"
    /\ {"EmptyOption", "InvalidSchedule"} \subseteq last.broken
    /\ last.err = "InvalidSchedule"

\* The errors createPoll rejects its input with.
CreationErrors == {"EmptyTitle", "InvalidOptionCount", "EmptyOption", "InvalidSchedule"}

\* C11: a createPoll call that fails with EmptyTitle, InvalidOptionCount,
\* EmptyOption or InvalidSchedule leaves pollCount, every poll record and
\* every vote record unchanged, the id it would have taken stays invisible
\* to getPoll, and a successful createPoll returns the number of earlier
\* successful calls, whatever failed in between.
C11_FailedCreateLeavesLedger ==
    [][ /\ (last'.op = "createPoll" /\ last'.err \in CreationErrors) =>
             /\ pollCount' = pollCount
             /\ polls' = polls
             /\ pollVotes' = pollVotes
             /\ creations' = creations
             /\ GetPoll(Storage', pollCount').err = "PollNotFound"
        /\ (last'.op = "createPoll" /\ last'.err = "ok" /\ creations' # creations) =>
             creations'[Len(creations')].id = Len(creations) ]_vars

\* A createPoll call just failed on an empty option, after the loop had
\* already written to the record of the id it was about to allocate.
C11_Witness ==
    /\ last.op = "createPoll"
    /\ last.err = "EmptyOption"
    /\ pollCount = 0
    /\ polls[0] = EmptyPoll

\* C12: poll ids are allocated sequentially from 0: pollCount equals the
\* number of successful createPoll calls so far, the k-th of them returned
\* id k-1, and no two of them returned the same id.
C12_SequentialIds ==
    /\ pollCount = Len(creations)
    /\ \A k \in 1 .. Len(creations) : creations[k].id = k - 1
    /\ \A j, k \in 1 .. Len(creations) : j # k => creations[j].id # creations[k].id

\* Two createPoll calls have succeeded, and they returned ids 0 and 1.
C12_Witness ==
    /\ Len(creations) = 2
    /\ creations[1].id = 0
    /\ creations[2].id = 1

\* The shape of every created poll: 2 to 4 options, none empty, and one
\* encrypted counter per option.
OptionsShape ==
    \A p \in PollIds :
       PollExists(polls[p]) =>
          /\ MIN_OPTIONS <= Len(polls[p].options)
          /\ Len(polls[p].options) <= MAX_OPTIONS
          /\ \A i \in 1 .. Len(polls[p].options) : polls[p].options[i] # ""
          /\ Len(polls[p].encryptedCounts) = Len(polls[p].options)

\* C13: in every reachable state every created poll has 2 to 4 options,
\* all non-empty, and as many encrypted counters as options; once a poll is
\* created no transaction changes its options or the number of its counters.
C13_OptionsAndCounters ==
    /\ OptionsShape
    /\ [][ /\ OptionsShape'
           /\ \A p \in PollIds :
                 PollExists(polls[p]) =>
                    /\ polls'[p].options = polls[p].options
                    /\ Len(polls'[p].encryptedCounts) = Len(polls[p].encryptedCounts)
        ]_vars

\* A poll with four options has been voted on, finalized and published, and
\* still has four options and four counters.
C13_Witness ==
    /\ polls[0].resultsSubmitted
    /\ Len(polls[0].options) = MAX_OPTIONS
    /\ Len(polls[0].encryptedCounts) = MAX_OPTIONS
    /\ \E u \in Users : pollVotes[0][u]

\* Every stored poll ends after it starts.
EndsAfterStart ==
    \A p \in LedgerIds : PollExists(polls[p]) => polls[p].endTime > polls[p].startTime

PollOperations == {"submitVote", "finalizePoll", "submitDecryptedResults"}

\* C15: for every id, getPoll and the existence check of every other poll
\* operation fail with PollNotFound iff no createPoll has succeeded with
\* that id, which is iff id >= pollCount; getPoll changes no state and
\* returns the title, description, options, start time, end time and
\* creator given at creation, with the current flags.
C15_ExistenceExact ==
    /\ \A p \in LedgerIds :
          LET r == GetPoll(Storage, p) IN
          /\ r.st = Storage
          /\ r.err = "PollNotFound" <=> p >= pollCount
          /\ p >= pollCount <=> ~ \E k \in 1 .. Len(creations) : creations[k].id = p
          /\ GetEncryptedResults(Storage, p).err = "PollNotFound" <=> p >= pollCount
          /\ GetDecryptedResults(Storage, p).err = "PollNotFound" <=> p >= pollCount
          /\ GetResultVerification(Storage, p).err = "PollNotFound" <=> p >= pollCount
          /\ \A k \in 1 .. Len(creations) :
                creations[k].id = p =>
                   /\ r.err = "ok"
                   /\ r.ret = [ title |-> creations[k].title,
                                description |-> creations[k].description,
                                options |-> creations[k].options,
                                startTime |-> creations[k].startTime,
                                endTime |-> creations[k].endTime,
                                finalized |-> polls[p].finalized,
                                resultsSubmitted |-> polls[p].resultsSubmitted,
                                creator |-> creations[k].creator ]
    /\ last.op \in PollOperations =>
          (last.err = "PollNotFound" <=> last.pollId >= pollCount)

\* Poll 0 exists and is finalized, getPoll reports it so, poll 1 was never
\* created, and a vote on poll 1 has just failed with PollNotFound.
C15_Witness ==
    /\ pollCount = 1
    /\ GetPoll(Storage, 0).err = "ok"
    /\ GetPoll(Storage, 0).ret.finalized
    /\ GetPoll(Storage, 1).err = "PollNotFound"
    /\ last.op = "submitVote" /\ last.pollId = 1 /\ last.err = "PollNotFound"

\* hasVoted agrees with the history of accepted votes, for every poll id.
VoteRecordsExact ==
    \A p \in LedgerIds, u \in Users :
       /\ HasVoted(Storage, p, u) \in BOOLEAN
       /\ HasVoted(Storage, p, u) <=> ballots[p][u] # <<>>
       /\ p >= pollCount => ~HasVoted(Storage, p, u)

\* C16: hasVoted returns a boolean for every poll id, false for an id that
\* was never created, true iff a submitVote by that voter on that poll has
\* succeeded, and once true it is true in every later state.
C16_HasVoted ==
    /\ [] VoteRecordsExact
    /\ [][ \A p \in LedgerIds, u \in Users :
             HasVoted(Storage, p, u) => HasVoted(Storage', p, u) ]_vars

\* Results are published: alice, who voted, is still recorded, bob, who did
\* not, is not, and nobody is recorded on the poll id never created.
C16_Witness ==
    /\ polls[0].resultsSubmitted
    /\ HasVoted(Storage, 0, "alice")
    /\ ~HasVoted(Storage, 0, "bob")
    /\ ~HasVoted(Storage, 1, "alice")

\* A poll id no createPoll has succeeded with has both flags false.
FlagsStartFalse ==
    \A p \in LedgerIds :
       ~PollExists(polls[p]) => ~polls[p].finalized /\ ~polls[p].resultsSubmitted

\* C17: finalized and resultsSubmitted start false and are never reset;
\* finalized changes only in a successful finalizePoll of that poll and
\* resultsSubmitted only in a successful submitDecryptedResults of that poll
\* (so each goes false->true at most once), and a poll is created with both
\* flags false.
C17_FlagsMonotonic ==
    /\ [] FlagsStartFalse
    /\ [][ /\ \A p \in LedgerIds :
                /\ polls[p].finalized => polls'[p].finalized
                /\ polls[p].resultsSubmitted => polls'[p].resultsSubmitted
                /\ polls'[p].finalized # polls[p].finalized =>
                      /\ last'.op = "finalizePoll"
                      /\ last'.err = "ok"
                      /\ last'.pollId = p
                /\ polls'[p].resultsSubmitted # polls[p].resultsSubmitted =>
                      /\ last'.op = "submitDecryptedResults"
                      /\ last'.err = "ok"
                      /\ last'.pollId = p
           /\ creations' # creations =>
                LET c == creations'[Len(creations')] IN
                ~polls'[c.id].finalized /\ ~polls'[c.id].resultsSubmitted ]_vars

\* Both flags of poll 0 are set, and a later finalizePoll of it has just
\* been rejected.
C17_Witness ==
    /\ polls[0].finalized
    /\ polls[0].resultsSubmitted
    /\ last.op = "finalizePoll" /\ last.pollId = 0
    /\ last.err = "PollAlreadyFinalized"

\* C18: in every reachable state and for every poll, decryptedCounts is
\* non-empty iff resultsSubmitted is true, it then has one count per option,
\* and encodedClearResults and decryptionProof are set in exactly the states
\* where resultsSubmitted is true.
C18_ResultsPresence ==
    \A p \in LedgerIds :
       /\ polls[p].decryptedCounts # <<>> <=> polls[p].resultsSubmitted
       /\ polls[p].resultsSubmitted =>
             Len(polls[p].decryptedCounts) = Len(polls[p].options)
       /\ polls[p].encodedClearResults # NoBytes <=> polls[p].resultsSubmitted
       /\ polls[p].decryptionProof # NoBytes <=> polls[p].resultsSubmitted

\* A submission with an oversized count has just been rejected on a
\* finalized poll, and none of the result fields is set.
C18_Witness ==
    /\ last.op = "submitDecryptedResults" /\ last.pollId = 0
    /\ last.err = "CountExceedsLimit"
    /\ polls[0].finalized
    /\ ~polls[0].resultsSubmitted
    /\ polls[0].decryptedCounts = <<>>
    /\ polls[0].encodedClearResults = NoBytes

\* C19: for an unknown poll getEncryptedResults, getDecryptedResults and
\* getResultVerification all fail with PollNotFound; for an existing poll
\* getEncryptedResults returns the counter handles, and getDecryptedResults
\* and getResultVerification fail with RESULTS_NOT_AVAILABLE while
\* resultsSubmitted is false and return the stored counts and the stored
\* (encoding, proof) pair once it is true; none of them changes the state.
C19_ResultReads ==
    \A p \in LedgerIds :
       LET enc == GetEncryptedResults(Storage, p)
           dec == GetDecryptedResults(Storage, p)
           ver == GetResultVerification(Storage, p)
       IN  /\ enc.st = Storage /\ dec.st = Storage /\ ver.st = Storage
           /\ IF p >= pollCount
              THEN /\ enc.err = "PollNotFound"
                   /\ dec.err = "PollNotFound"
                   /\ ver.err = "PollNotFound"
              ELSE /\ enc.err = "ok"
                   /\ enc.ret = polls[p].encryptedCounts
                   /\ IF polls[p].resultsSubmitted
                      THEN /\ dec.err = "ok"
                           /\ dec.ret = polls[p].decryptedCounts
                           /\ ver.err = "ok"
                           /\ ver.ret = <<polls[p].encodedClearResults,
                                          polls[p].decryptionProof>>
                      ELSE /\ dec.err = "RESULTS_NOT_AVAILABLE"
                           /\ ver.err = "RESULTS_NOT_AVAILABLE"

\* Poll 0 is finalized but its results are not submitted: both result reads
\* are refused, the handles are readable, and poll 1 is unknown to all three.
C19_Witness ==
    /\ polls[0].finalized /\ ~polls[0].resultsSubmitted
    /\ GetDecryptedResults(Storage, 0).err = "RESULTS_NOT_AVAILABLE"
    /\ GetResultVerification(Storage, 0).err = "RESULTS_NOT_AVAILABLE"
    /\ GetEncryptedResults(Storage, 0).err = "ok"
    /\ GetEncryptedResults(Storage, 1).err = "PollNotFound"

\* The errors of the lifecycle guards.
LifecycleErrors ==
    { "PollNotFound", "VotingNotStarted", "VotingFinished", "AlreadyVoted",
      "PollStillRunning", "PollAlreadyFinalized", "PollNotFinalized",
      "ResultsAlreadySubmitted" }

\* C20: a submitVote, finalizePoll or submitDecryptedResults call that fails
\* with a lifecycle guard leaves pollCount, every poll record and every vote
\* record exactly as before the call.
C20_GuardFailuresAtomic ==
    [][ (last'.op \in PollOperations /\ last'.err \in LifecycleErrors) =>
           /\ pollCount' = pollCount
           /\ polls' = polls
           /\ pollVotes' = pollVotes ]_vars

\* A finalizePoll call has just been rejected because the poll, on which a
\* vote is recorded, is still running; the poll is not finalized.
C20_Witness ==
    /\ last.op = "finalizePoll" /\ last.pollId = 0
    /\ last.err = "PollStillRunning"
    /\ ~polls[0].finalized
    /\ \E u \in Users : pollVotes[0][u]

\* C21: submitVote reports the first broken precondition in the order
\* PollNotFound, VotingNotStarted, VotingFinished, AlreadyVoted (so a second
\* call of a recorded voter after endTime gets VotingFinished, and a call on
\* an unknown poll id gets PollNotFound), and none of these errors when no
\* precondition is broken.
C21_VoteCheckOrder ==
    last.op = "submitVote" =>
       /\ last.broken # {} =>
             last.err = FirstBroken(<<"PollNotFound", "VotingNotStarted",
                                      "VotingFinished", "AlreadyVoted">>, last.broken)
       /\ last.broken = {} => last.err \in {"ok", "InvalidInputProof"}
       /\ last.pollId >= pollCount => last.err = "PollNotFound"

\* A recorded voter has just called submitVote again after endTime and got
\* VotingFinished.
C21_Witness ==
    /\ last.op = "submitVote"
    /\ {"VotingFinished", "AlreadyVoted"} \subseteq last.broken
    /\ "PollNotFound" \notin last.broken
    /\ last.err = "VotingFinished"

\* C22: in every reachable state, finalizePoll and submitDecryptedResults
\* give the same outcome (success or the same error) and the same resulting
\* storage for the same arguments, whoever the caller is.
C22_Permissionless ==
    \A p \in LedgerIds, u, v \in Users :
       /\ FinalizePollTx(Storage, u, p, now) = FinalizePollTx(Storage, v, p, now)
       /\ \A d \in DecryptionInputs(polls[p]) :
             SubmitDecryptedResultsTx(Storage, u, p, d[1], d[2])
                = SubmitDecryptedResultsTx(Storage, v, p, d[1], d[2])

\* A poll created by alice has been finalized and its results published,
\* both by bob.
C22_Witness ==
    /\ polls[0].creator = "alice"
    /\ polls[0].finalized
    /\ polls[0].resultsSubmitted
    /\ last.op = "submitDecryptedResults" /\ last.pollId = 0 /\ last.err = "ok"

\* The cleartext view of a storage: every counter handle keeps its identity
\* and loses the plaintext it encrypts.
Erase(S) ==
    [S EXCEPT !.polls =
        [p \in DOMAIN S.polls |->
            [S.polls[p] EXCEPT !.encryptedCounts =
                [i \in 1 .. Len(S.polls[p].encryptedCounts) |->
                    [h |-> S.polls[p].encryptedCounts[i].h, v |-> 0]]]]]

\* The same ciphertext input encrypting choice 0.
ErasedInput(ct) == [ct EXCEPT !.val = 0]

\* Two outcomes with the same result and the same cleartext view.
SameOutcome(r1, r2) == r1.err = r2.err /\ Erase(r1.st) = Erase(r2.st)

\* C23: the choices encrypted by voters are not observable: in every
\* reachable state, submitVote, finalizePoll and createPoll give the same
\* success or failure, the same cleartext view of the resulting storage and
\* the same notification as they give on the run where every plaintext is
\* replaced by 0 (hence any two runs differing only in the choices agree step
\* by step), and the vote-cast notification carries only (pollId, voter).
C23_ChoiceHidden ==
    /\ \A p \in PollIds, u \in Users :
          /\ \A ct \in VoteInputs(u) :
                LET r1 == SubmitVoteTx(Storage, u, p, ct, now)
                    r2 == SubmitVoteTx(Erase(Storage), u, p, ErasedInput(ct), now)
                IN  /\ SameOutcome(r1, r2)
                    /\ Emitted(r1, VoteSubmittedEvent(p, u))
                          = Emitted(r2, VoteSubmittedEvent(p, u))
          /\ SameOutcome(FinalizePollTx(Storage, u, p, now),
                         FinalizePollTx(Erase(Storage), u, p, now))
    /\ pollCount + 1 \in PollIds =>
          \A u \in Users, ti \in Titles, d \in Descriptions, o \in OptionInputs,
             st \in Times, e \in Times :
             SameOutcome(CreatePollTx(Storage, u, ti, d, o, st, e, now),
                         CreatePollTx(Erase(Storage), u, ti, d, o, st, e, now))
    /\ (last.op = "submitVote" /\ last.err = "ok") =>
          \E u \in Users : last.events = <<VoteSubmittedEvent(last.pollId, u)>>

\* Alice's accepted vote for option 1 was the last transaction: the storage
\* holds plaintexts that its cleartext view does not have, and the log holds
\* one vote-cast notification.
C23_Witness ==
    /\ last.op = "submitVote" /\ last.err = "ok"
    /\ ballots[0]["alice"] = <<1>>
    /\ Erase(Storage) # Storage
    /\ Len(last.events) = 1

\* C24: an accepted submitVote with encrypted choice c replaces every one of
\* the options.length counters of the poll by a new handle whose plaintext is
\* the old plaintext plus 1 at option index c and the old plaintext at every
\* other index (an uninitialized counter counts as 0).
C24_CounterUpdate ==
    [][ \A p \in PollIds, u \in Users :
           ballots'[p][u] # ballots[p][u] =>
              LET c == ballots'[p][u][Len(ballots'[p][u])] IN
              /\ Len(polls'[p].encryptedCounts) = Len(polls[p].options)
              /\ \A i \in 0 .. Len(polls[p].options) - 1 :
                    /\ polls'[p].encryptedCounts[i + 1].v
                          = polls[p].encryptedCounts[i + 1].v + (IF c = i THEN 1 ELSE 0)
                    /\ polls'[p].encryptedCounts[i + 1].h
                          # polls[p].encryptedCounts[i + 1].h
                    /\ polls'[p].encryptedCounts[i + 1].h \in allowed' ]_vars

\* Bob and then alice voted for option 1: its counter encrypts 2 and the
\* counter of option 0 encrypts 0.
C24_Witness ==
    /\ last.op = "submitVote" /\ last.err = "ok"
    /\ ballots[0]["alice"] = <<1>>
    /\ ballots[0]["bob"] = <<1>>
    /\ polls[0].encryptedCounts[1].v = 0
    /\ polls[0].encryptedCounts[2].v = 2
    /\ IsInitialized(polls[0].encryptedCounts[1])

\* What submitVote would do in the current state, for every caller and input:
\* a failed call returns the storage it started from; a call rejected for its
\* input proof leaves the caller unrecorded and able to cast a valid vote at
\* any later time of the window; a successful call records the caller and
\* replaces every counter of the poll.
VoteAllOrNothing ==
    \A p \in PollIds, u \in Users : \A ct \in VoteInputs(u) :
       LET r == SubmitVoteTx(Storage, u, p, ct, now) IN
       /\ r.err # "ok" => r.st = Storage
       /\ r.err = "InvalidInputProof" =>
             /\ ~HasVoted(r.st, p, u)
             /\ \A t \in now .. polls[p].endTime, good \in ExternalInputs :
                   good.owner = u => SubmitVoteTx(r.st, u, p, good, t).err = "ok"
       /\ r.err = "ok" =>
             /\ HasVoted(r.st, p, u)
             /\ ~HasVoted(Storage, p, u)
             /\ \A i \in 1 .. Len(polls[p].options) :
                   r.st.polls[p].encryptedCounts[i].h # polls[p].encryptedCounts[i].h

\* C25: submitVote is all-or-nothing: a call that fails, in particular one
\* whose (encryptedChoice, inputProof) pair is rejected, changes neither a
\* vote record nor a counter, and the rejected voter can still cast one valid
\* vote later in the window; a call that succeeds sets the vote record and
\* replaces all options.length counters in the same step.
C25_VoteAtomic ==
    /\ [] VoteAllOrNothing
    /\ [][ /\ (last'.op = "submitVote" /\ last'.err # "ok") =>
                /\ polls' = polls
                /\ pollVotes' = pollVotes
                /\ allowed' = allowed
                /\ ballots' = ballots
           /\ \A p \in PollIds, u \in Users :
                pollVotes'[p][u] # pollVotes[p][u] =>
                   /\ last'.op = "submitVote" /\ last'.err = "ok"
                   /\ \A i \in 1 .. Len(polls[p].options) :
                         polls'[p].encryptedCounts[i].h # polls[p].encryptedCounts[i].h
       ]_vars

\* A vote was rejected for its input proof inside the window of a poll on
\* which the other voter is recorded; somebody is still unrecorded.
C25_Witness ==
    /\ last.op = "submitVote" /\ last.pollId = 0
    /\ last.err = "InvalidInputProof"
    /\ InWindow(0)
    /\ \E u, w \in Users : pollVotes[0][u] /\ ~pollVotes[0][w]

\* C26: no operation writes any state before all of its checks have passed:
\* whenever a call fails, the storage at the failing check is still the
\* storage the call started from.
C26_ValidateThenCommit ==
    last.err # "ok" => ~last.undone

\* The k big-endian bytes of the unsigned integer n.
RECURSIVE BigEndianBytes(_, _)
BigEndianBytes(n, k) ==
    IF k = 0 THEN <<>> ELSE BigEndianBytes(n \div 256, k - 1) \o <<n % 256>>

\* Count i (from 0) is the integer that bytes [32*i, 32*i+32) encode.
CountsMatchBytes(counts, encoded, n) ==
    /\ Len(counts) = n
    /\ Len(encoded) = 32 * n
    /\ \A i \in 0 .. n - 1 :
          BigEndianBytes(counts[i + 1], 32) = SubSeq(encoded, 32 * i + 1, 32 * i + 32)

\* C27: a successful submitDecryptedResults stores, for every option index i,
\* the unsigned big-endian integer in bytes [32*i, 32*i+32) of encodedCounts
\* as decryptedCounts[i], stores encodedCounts and the proof exactly as
\* submitted, and its results-published notification carries exactly the
\* stored counts.
C27_DecodedResults ==
    /\ \A p \in PollIds, u \in Users :
          \A d \in DecryptionInputs(polls[p]) :
             LET r == SubmitDecryptedResultsTx(Storage, u, p, d[1], d[2]) IN
             r.err = "ok" =>
                /\ r.st.polls[p].encodedClearResults = d[1]
                /\ r.st.polls[p].decryptionProof = d[2]
                /\ CountsMatchBytes(r.st.polls[p].decryptedCounts, d[1],
                                    Len(polls[p].options))
    /\ (last.op = "submitDecryptedResults" /\ last.err = "ok") =>
          /\ last.events =
                <<ResultsPublishedEvent(last.pollId, polls[last.pollId].decryptedCounts)>>
          /\ CountsMatchBytes(polls[last.pollId].decryptedCounts,
                              polls[last.pollId].encodedClearResults,
                              Len(polls[last.pollId].options))

\* Results <<0, 1, 0>> have just been published for a poll of three options,
\* from an encoding whose 64th byte is 1.
C27_Witness ==
    /\ last.op = "submitDecryptedResults" /\ last.err = "ok" /\ last.pollId = 0
    /\ polls[0].decryptedCounts = <<0, 1, 0>>
    /\ polls[0].encodedClearResults[64] = 1
    /\ last.events[1].clearResults = <<0, 1, 0>>

\* C28: after createPoll every counter of the poll is a valid handle
\* encrypting zero, and a finalizePoll call after endTime on a poll that
\* received no vote succeeds.
C28_ZeroVotePollPublishable ==
    /\ \A p \in PollIds :
          PollExists(polls[p]) =>
             \A i \in 1 .. Len(polls[p].encryptedCounts) :
                /\ IsInitialized(polls[p].encryptedCounts[i])
                /\ Voters(p) = {} => polls[p].encryptedCounts[i].v = 0
    /\ ( /\ last.op = "finalizePoll"
         /\ PollExists(polls[last.pollId])
         /\ Voters(last.pollId) = {}
         /\ now > polls[last.pollId].endTime ) =>
          /\ last.err \in {"ok", "PollAlreadyFinalized"}
          /\ polls[last.pollId].finalized

\* The poll operations tried on poll p in the current state: alice's vote
\* for option 0 or 1, finalizePoll, and the submission of the genuine
\* decryption of the poll as it stands.
PollOps(p) ==
    { [kind |-> "submitVote", ct |-> ct, d |-> <<>>] : ct \in LedgerVoteInputs }
    \cup { [kind |-> "finalizePoll", ct |-> <<>>, d |-> <<>>] }
    \cup { [kind |-> "submitDecryptedResults", ct |-> <<>>,
             d |-> <<PublicDecrypt(polls[p]).abiEncodedClearValues,
                     PublicDecrypt(polls[p]).decryptionProof>>] }

\* The outcome of poll operation o on poll p from storage S.
ApplyOp(S, o, p) ==
    CASE o.kind = "submitVote" -> SubmitVoteTx(S, "alice", p, o.ct, now)
      [] o.kind = "finalizePoll" -> FinalizePollTx(S, "bob", p, now)
      [] o.kind = "submitDecryptedResults" ->
            SubmitDecryptedResultsTx(S, "bob", p, o.d[1], o.d[2])

\* In the current state any two operations on different polls give the same
\* outcomes and the same storage in either order.
OpsCommute ==
    \A p, q \in LedgerIds :
       p < q =>
          \A o1 \in PollOps(p), o2 \in PollOps(q) :
             LET a == ApplyOp(Storage, o1, p)
                 b == ApplyOp(a.st, o2, q)
                 c == ApplyOp(Storage, o2, q)
                 d == ApplyOp(c.st, o1, p)
             IN  /\ b.st = d.st
                 /\ a.err = d.err
                 /\ b.err = c.err

\* C29: submitVote, finalizePoll and submitDecryptedResults on poll p leave
\* the record and the vote records of every other poll unchanged, createPoll
\* leaves every existing poll and every vote record unchanged, and two
\* operations on different polls commute.
C29_PollsIsolated ==
    /\ [] OpsCommute
    /\ [][ /\ last'.op \in PollOperations =>
                \A q \in LedgerIds :
                   q # last'.pollId =>
                      polls'[q] = polls[q] /\ pollVotes'[q] = pollVotes[q]
           /\ last'.op = "createPoll" =>
                /\ pollVotes' = pollVotes
                /\ \A q \in LedgerIds : PollExists(polls[q]) => polls'[q] = polls[q]
       ]_vars

\* Poll 0 has its results published while poll 1, created beside it, is
\* still open and has just received a vote.
C29_Witness ==
    /\ pollCount = 2
    /\ polls[0].resultsSubmitted
    /\ ~polls[1].finalized
    /\ pollVotes[1]["alice"]
    /\ last.op = "submitVote" /\ last.pollId = 1 /\ last.err = "ok"

\* The phase of an existing poll at time t: 0 Created/Active, 1 Closed,
\* 2 Finalized, 3 ResultsPublished.
Phase(poll, t) ==
    IF poll.resultsSubmitted THEN 3
    ELSE IF poll.finalized THEN 2
    ELSE IF t > poll.endTime THEN 1
    ELSE 0

\* Results imply finalization and finalization implies that the poll is over.
PhasesConsistent ==
    \A p \in PollIds :
       /\ polls[p].resultsSubmitted => polls[p].finalized
       /\ polls[p].finalized => now > polls[p].endTime

\* C30: in every reachable state resultsSubmitted implies finalized and
\* finalized implies now > endTime; time never decreases; a poll is created
\* in the phase Created/Active, and every step keeps its phase or moves it to
\* the next one of Created/Active, Closed, Finalized, ResultsPublished.
C30_PhaseOrder ==
    /\ [] PhasesConsistent
    /\ [][ /\ now' >= now
           /\ \A p \in PollIds :
                /\ (~PollExists(polls[p]) /\ PollExists(polls'[p])) =>
                      Phase(polls'[p], now') = 0
                /\ PollExists(polls[p]) =>
                      \/ Phase(polls'[p], now') = Phase(polls[p], now)
                      \/ Phase(polls'[p], now') = Phase(polls[p], now) + 1
       ]_vars

\* A poll has just gone from Finalized to ResultsPublished, after its end.
C30_Witness ==
    /\ last.op = "submitDecryptedResults" /\ last.err = "ok" /\ last.pollId = 0
    /\ Phase(polls[0], now) = 3
    /\ polls[0].finalized
    /\ now > polls[0].endTime

\* The sum of the plaintexts of the counters of poll p.
TallySum(p) == SumSeq(Plain(polls[p]))

\* C31: in every reachable state the plaintexts of a poll's counters sum to
\* at most the number of voters recorded on the poll; an accepted vote raises
\* the sum by 0 or 1, and no other step changes it.
C31_SumAtMostVoters ==
    /\ [] (\A p \in PollIds : TallySum(p) <= Cardinality(Voters(p)))
    /\ [][ \A p \in PollIds :
             LET before == SumSeq(Plain(polls[p]))
                 after == SumSeq(Plain(polls'[p]))
             IN  IF \E u \in Users : ballots'[p][u] # ballots[p][u]
                 THEN /\ last'.op = "submitVote" /\ last'.err = "ok"
                      /\ after \in {before, before + 1}
                 ELSE after = before ]_vars

\* Both voters are recorded, one with an in-range choice and one with a
\* choice no option has: the counters sum to 1.
C31_Witness ==
    /\ Cardinality(Voters(0)) = 2
    /\ TallySum(0) = 1
    /\ \E u \in Users : ballots[0][u] # <<>> /\ ballots[0][u][1] >= Len(polls[0].options)

\* The fields of a poll record that createPoll receives or derives from its
\* caller.
Metadata(poll) ==
    <<poll.title, poll.description, poll.options, poll.startTime, poll.endTime,
      poll.creator>>

\* C32: the title, description, options, start time, end time and creator of
\* every poll are those of the createPoll call that made it, the creator being
\* its caller, and no later step (submitVote, finalizePoll,
\* submitDecryptedResults, another createPoll) changes any of them.
C32_MetadataFixed ==
    /\ [] (\A k \in 1 .. Len(creations) :
             Metadata(polls[creations[k].id]) =
                <<creations[k].title, creations[k].description, creations[k].options,
                  creations[k].startTime, creations[k].endTime, creations[k].creator>>)
    /\ [][ \A p \in LedgerIds :
             PollExists(polls[p]) => Metadata(polls'[p]) = Metadata(polls[p]) ]_vars

\* Alice's poll has been voted on, finalized and published by bob, and bob
\* has then created a second poll: alice is still the creator of the first.
C32_Witness ==
    /\ polls[0].creator = "alice"
    /\ pollVotes[0]["alice"]
    /\ polls[0].resultsSubmitted
    /\ last.op = "createPoll" /\ last.err = "ok" /\ last.pollId = 1
    /\ polls[1].creator = "bob"

\* C33: under fair time advance, finalizePoll and genuine
\* submitDecryptedResults calls, every created poll that ends within the
\* horizon of the model eventually has resultsSubmitted = true, whatever
\* votes were or were not cast.
C33_LifecycleCompletes ==
    \A p \in PollIds :
       (PollExists(polls[p]) /\ polls[p].endTime < MaxTime)
          ~> polls[p].resultsSubmitted

\* The handleSubmit invocations whose createPoll call is in flight.
InFlight == {c \in Calls : calls[c].pc = "tx"}

\* A text that trimming leaves alone and that is not empty.
TrimmedNonEmpty(text) == text # "" /\ Trim(text) = text

\* C34: every createPoll call the form issues, whatever options were added,
\* removed, updated or reset before, carries a non-empty trimmed title, two
\* to four options that are non-empty and trimmed, and an end timestamp
\* after the start timestamp; and no createPoll transaction of the form
\* breaks the contract's EmptyTitle, InvalidOptionCount or EmptyOption guard.
C34_FormSendsValidPolls ==
    /\ sent # <<>> =>
          /\ TrimmedNonEmpty(sent[1].title)
          /\ Len(sent[1].options) >= MIN_OPTIONS
          /\ Len(sent[1].options) <= MAX_OPTIONS
          /\ \A i \in 1 .. Len(sent[1].options) : TrimmedNonEmpty(sent[1].options[i])
          /\ sent[1].endTimestamp > sent[1].startTimestamp
    /\ last.op = "createPoll" =>
          last.broken \cap {"EmptyTitle", "InvalidOptionCount", "EmptyOption"} = {}

\* After a first poll was created and the form reset, a submission of four
\* shown options, one of them blank, and of a padded title is in flight with
\* three options and the trimmed title.
C34_Witness ==
    /\ creations # <<>>
    /\ \E c \in InFlight :
          /\ Len(calls[c].closure.options) = FormMaxOptions
          /\ \E i \in 1 .. FormMaxOptions : Trim(calls[c].closure.options[i]) = ""
          /\ calls[c].closure.title = " Beta "
          /\ sent # <<>>
          /\ Len(sent[1].options) = 3
          /\ sent[1].title = "Beta"

\* C35: the form never has two createPoll calls in flight at once.
C35_OneCreateInFlight == Cardinality(InFlight) <= 1

====
